---- MODULE Spec2Model ----
(***************************************************************************)
(* A model of the GLPI REST client of glpi_api.py: the field cache         *)
(* (GLPI._fields) with field_id / field_uid, the compilation of search     *)
(* criteria, metacriteria and forcedisplay into request parameters, the    *)
(* opening and closing of the session (GLPI(...), connect, kill_session),  *)
(* and the handling of the responses by the public operations.             *)
(*                                                                         *)
(* Python text is a sequence of one-character strings, so that regular     *)
(* expressions, str.replace and prefix stripping work on characters.       *)
(* Parameter names (the keys of the compiled dict) are TLA+ strings built  *)
(* with \o the way str.format builds them.  A Python value is a record     *)
(* [t |-> its type, v |-> the text str() gives for it].                    *)
(***************************************************************************)
EXTENDS Integers, Sequences, FiniteSets, TLC

VARIABLES
  fields,   \* GLPI._fields: itemtype -> {uid: id}, only the cached itemtypes
  server,   \* the remote side: itemtype -> the listing listSearchOptions returns
  call,     \* the call that has just returned (NoCall between two calls)
  conn      \* the session: the client being constructed or used in a connect block

vars == <<fields, server, call, conn>>

----------------------------------------------------------------------------
(* Bounds of the model. *)

\* longest criteria list passed to search
MaxCriteria == 2
\* longest metacriteria list passed to search
MaxMeta == 2
\* longest forcedisplay list passed to search
MaxForce == 2

----------------------------------------------------------------------------
(* Python values. *)

PyStr(s) == [t |-> "str", v |-> s]
PyInt(digits) == [t |-> "int", v |-> digits]
PyTrue == [t |-> "bool", v |-> <<"T", "r", "u", "e">>]
None == [t |-> "NoneType", v |-> <<"N", "o", "n", "e">>]

\* str(x)
Str(x) == PyStr(x.v)

\* a dict is a function from its keys; {} is the function of empty domain
EmptyDict == << >>

\* d[k] = v
DictSet(d, k, val) == [x \in DOMAIN d \cup {k} |-> IF x = k THEN val ELSE d[x]]

\* d.update(e)
DictUpdate(d, e) == [x \in DOMAIN d \cup DOMAIN e |-> IF x \in DOMAIN e THEN e[x] ELSE d[x]]

Digits == {"0", "1", "2", "3", "4", "5", "6", "7", "8", "9"}

\* re.match(r'^\d+$', s): one or more digits, and $ also matches before a
\* final newline
ReMatchDigits(s) ==
  LET n == IF Len(s) > 0 /\ s[Len(s)] = "\n" THEN Len(s) - 1 ELSE Len(s)
  IN  n >= 1 /\ \A i \in 1..n : s[i] \in Digits

\* re.sub('^{:s}.'.format(itemtype), '', uid) for an itemtype made of letters:
\* the itemtype at the start of uid and the one character after it, whatever it
\* is (an unescaped '.' matches any character but a newline), are removed
ReSubPrefix(itemtype, uid) ==
  LET n == Len(itemtype)
  IN  IF /\ Len(uid) > n
         /\ SubSeq(uid, 1, n) = itemtype
         /\ uid[n + 1] # "\n"
      THEN SubSeq(uid, n + 2, Len(uid))
      ELSE uid

\* v.replace("'", "''", 1): the first quote only
ReplaceFirstQuote(s) ==
  IF \E i \in 1..Len(s) : s[i] = "'"
  THEN LET i == CHOOSE i \in 1..Len(s) : s[i] = "'" /\ \A j \in 1..(i - 1) : s[j] # "'"
       IN SubSeq(s, 1, i) \o <<"'">> \o SubSeq(s, i + 1, Len(s))
  ELSE s

\* v.replace("'", "''")
RECURSIVE ReplaceQuote(_)
ReplaceQuote(s) ==
  IF s = << >> THEN << >>
  ELSE (IF Head(s) = "'" THEN <<"'", "'">> ELSE <<Head(s)>>) \o ReplaceQuote(Tail(s))

----------------------------------------------------------------------------
(* Exceptions, and the state a method runs on: self holds the client's      *)
(* cache, the requests issued during the call, the exception raised (if     *)
(* any), and what the remote side answers during the call.                  *)

NoExc == "none"
CommunicationError == "GLPIError: communication error"
GLPIErrorResponse == "GLPIError: (code) message"
UnknownError == "GLPIError: unknown error"
CriteriaError == "GLPIError: search criteria should be a list"
KeyError == "KeyError"
AttributeError == "AttributeError"

\* what a request can meet: a status code, or a failure of the transport
Outcomes == {"200", "401", "500", "transport"}

Return(self, ret) == [self |-> self, ret |-> ret]
Raise(self, exc) == [self |-> [self EXCEPT !.exc = exc], ret |-> None]

\* whether a call raised: what follows it is skipped and the exception goes up
Raised(r) == r.self.exc # NoExc

\* session.get(...): the request is issued
Get(self, endpoint, itemtype, params, outcome) ==
  [self EXCEPT !.sent = Append(@, [endpoint |-> endpoint, itemtype |-> itemtype,
                                    params |-> params, outcome |-> outcome])]

\* the handlers of list_search_options, and _catch_errors around it
ListSearchOptionsResponse(self, itemtype, outcome) ==
  CASE outcome = "transport" -> Raise(self, CommunicationError)
    [] outcome = "200" -> Return(self, self.server[itemtype])
    [] outcome \in {"400", "401"} -> Raise(self, GLPIErrorResponse)
    [] OTHER -> Raise(self, UnknownError)

list_search_options(self, itemtype) ==
  ListSearchOptionsResponse(
    Get(self, "listSearchOptions", itemtype, EmptyDict, self.net.lso),
    itemtype, self.net.lso)

\* one item of the dict comprehension of _map_fields
MapItem(itemtype, mapping, field) ==
  IF field.hasuid
  THEN DictSet(mapping, ReSubPrefix(itemtype, field.uid), field.field_id)
  ELSE mapping

\* the dict comprehension of _map_fields over the listing's items, in order:
\* a later descriptor with the same stripped uid replaces the earlier one
RECURSIVE MapItems(_, _)
MapItems(itemtype, items) ==
  IF items = << >> THEN EmptyDict
  ELSE MapItem(itemtype, MapItems(itemtype, SubSeq(items, 1, Len(items) - 1)),
               items[Len(items)])

\* the mapping of the listing r that list_search_options returned
MapListing(r, itemtype) ==
  IF Raised(r) THEN r ELSE Return(r.self, MapItems(itemtype, r.ret))

_map_fields(self, itemtype) == MapListing(list_search_options(self, itemtype), itemtype)

\* a client that puts an empty mapping in the cache when the fetch fails
StoreFieldsOnFailure(r, itemtype) ==
  IF Raised(r)
  THEN Raise([r.self EXCEPT !.fields = DictSet(@, itemtype, EmptyDict)], r.self.exc)
  ELSE Return([r.self EXCEPT !.fields = DictSet(@, itemtype, r.ret)], None)

\* self._fields[itemtype] = r, the mapping _map_fields returned
StoreFields(r, itemtype) ==
  IF Raised(r) THEN r
  ELSE Return([r.self EXCEPT !.fields = DictSet(@, itemtype, r.ret)], None)

\* a client without the test of the cache: the mapping is fetched every time
CacheFieldsAlways(self, itemtype, refresh) ==
  StoreFields(_map_fields(self, itemtype), itemtype)

\* if itemtype not in self._fields or refresh:
\*     self._fields[itemtype] = self._map_fields(itemtype)
CacheFields(self, itemtype, refresh) ==
  IF itemtype \notin DOMAIN self.fields \/ refresh
  THEN StoreFields(_map_fields(self, itemtype), itemtype)
  ELSE Return(self, None)

\* a lookup with dict.get in place of the subscript: None for a missing key
FieldsLookupOrNone(r, itemtype, key) ==
  IF Raised(r) THEN r
  ELSE IF key \in DOMAIN r.self.fields[itemtype]
       THEN Return(r.self, Str(PyStr(r.self.fields[itemtype][key])))
       ELSE Return(r.self, None)

\* str(self._fields[itemtype][key]), once r has the itemtype cached
FieldsLookup(r, itemtype, key) ==
  IF Raised(r) THEN r
  ELSE IF key \in DOMAIN r.self.fields[itemtype]
       THEN Return(r.self, Str(PyStr(r.self.fields[itemtype][key])))
       ELSE Raise(r.self, KeyError)

\* a field_id that fills the cache before the test of the digits
field_id_CacheFirst(self, itemtype, field_uid, refresh) ==
  IF ReMatchDigits(Str(field_uid).v)
  THEN Return(CacheFields(self, itemtype, refresh).self, Str(field_uid))
  ELSE FieldsLookup(CacheFields(self, itemtype, refresh), itemtype, Str(field_uid).v)

field_id(self, itemtype, field_uid, refresh) ==
  IF ReMatchDigits(Str(field_uid).v)
  THEN Return(self, Str(field_uid))
  ELSE FieldsLookup(CacheFields(self, itemtype, refresh), itemtype, Str(field_uid).v)

\* a field_uid that forgets to reverse the mapping: val looked up as a key
KeysOfForward(mapping, val) == {k \in DOMAIN mapping : k = val}

\* the keys of the mapping that hold val
KeysOf(mapping, val) == {k \in DOMAIN mapping : mapping[k] = val}

\* {value: key for key, value in mapping.items()}[val]: the mapping is one to
\* one (its values are the keys of the listing), so one key at most holds val
ReverseLookup(r, itemtype, val) ==
  IF Raised(r) THEN r
  ELSE IF KeysOf(r.self.fields[itemtype], val) = {}
       THEN Raise(r.self, KeyError)
       ELSE Return(r.self, PyStr(CHOOSE k \in KeysOf(r.self.fields[itemtype], val) : TRUE))

field_uid(self, itemtype, fid, refresh) ==
  ReverseLookup(CacheFields(self, itemtype, refresh), itemtype, Str(fid).v)

----------------------------------------------------------------------------
(* The compilation of a search into request parameters. *)

\* a list, a tuple, or another object given where a sequence is expected
List(items) == [t |-> "list", items |-> items]
Tuple(items) == [t |-> "tuple", items |-> items]

\* d.get(k, default), d.pop(k, default)
DictGet(d, k, default) == IF k \in DOMAIN d THEN d[k] ELSE default

\* forcedisplay keys counted from one
ForceKeyFromOne(idx) == "forcedisplay[" \o ToString(idx + 1) \o "]"

\* 'forcedisplay[{:d}]'.format(idx)
ForceKey(idx) == "forcedisplay[" \o ToString(idx) \o "]"

\* the entry at idx, resolved to fieldid, with the later entries' parameters
ForceJoin(fieldid, rest, idx) ==
  IF Raised(rest) THEN rest
  ELSE Return(rest.self, DictUpdate(ForceKey(idx) :> fieldid, rest.ret))

RECURSIVE ForceItems(_, _, _, _)
RECURSIVE ForceRest(_, _, _, _)

\* after field_id returned r for the entry at idx: the later entries
ForceRest(r, itemtype, value, idx) ==
  IF Raised(r) THEN r
  ELSE ForceJoin(r.ret, ForceItems(r.self, itemtype, value, idx + 1), idx)

\* the dict comprehension of _add_forcedisplay for the entries from idx on
ForceItems(self, itemtype, value, idx) ==
  IF idx >= Len(value) THEN Return(self, EmptyDict)
  ELSE ForceRest(field_id(self, itemtype, value[idx + 1], FALSE), itemtype, value, idx)

_add_forcedisplay(self, itemtype, value) == ForceItems(self, itemtype, value, 0)

\* a key that forgets the parent
CriterionKeyFlat(parent, idx) == "criteria[" \o ToString(idx) \o "]"

\* the key of the criterion at idx under parent (<< >> is parent=None)
CriterionKey(parent, idx) ==
  IF parent = << >>
  THEN "criteria[" \o ToString(idx) \o "]"
  ELSE parent[1] \o "[criteria][" \o ToString(idx) \o "]"

\* '{:s}[{:s}]'.format(criterion_key, p)
ParamKey(criterion_key, p) == criterion_key \o "[" \o p \o "]"

\* a compilation that does not map the field
ParamValueUnmapped(criterion, p, fieldid) ==
  IF criterion[p].t = "str"
  THEN PyStr(ReplaceQuote(criterion[p].v))
  ELSE criterion[p]

\* the value of attribute p: the field as field_id gave it, a string with
\* its quotes doubled, anything else as it is
ParamValue(criterion, p, fieldid) ==
  IF p = "field" THEN fieldid
  ELSE IF criterion[p].t = "str"
       THEN PyStr(ReplaceQuote(criterion[p].v))
       ELSE criterion[p]

\* the dict of a criterion's own attributes, all but 'criteria'
OwnParams(criterion, criterion_key, attrs, fieldid) ==
  [k \in {ParamKey(criterion_key, p) : p \in attrs} |->
     ParamValue(criterion, CHOOSE p \in attrs : ParamKey(criterion_key, p) = k, fieldid)]

\* the criterion's own parameters, f being what field_id returned for its field
OwnParamsWith(f, criterion, criterion_key) ==
  IF Raised(f) THEN f
  ELSE Return(f.self, OwnParams(criterion, criterion_key,
                                DOMAIN criterion \ {"criteria"}, f.ret))

CriterionParams(self, criterion, criterion_key, itemtype) ==
  OwnParamsWith(IF "field" \in DOMAIN criterion
                THEN field_id(self, itemtype, criterion.field, FALSE)
                ELSE Return(self, None),
                criterion, criterion_key)

RECURSIVE _add_criteria(_, _, _, _)
RECURSIVE CriteriaItems(_, _, _, _, _)
RECURSIVE CriteriaOwn(_, _, _, _, _)
RECURSIVE CriteriaRest(_, _, _, _, _, _)

\* params.update(sub); params.update(own); then the later criteria's
CriteriaJoin(sub, own, rest) ==
  IF Raised(rest) THEN rest
  ELSE Return(rest.self, DictUpdate(DictUpdate(sub, own), rest.ret))

\* after the criterion's own parameters: the criteria after idx
CriteriaRest(sub, own, items, itemtype, parent, idx) ==
  IF Raised(own) THEN own
  ELSE CriteriaJoin(sub, own.ret, CriteriaItems(own.self, items, itemtype, parent, idx + 1))

\* after the sub-criteria of the criterion at idx: its own parameters
CriteriaOwn(sub, items, itemtype, parent, idx) ==
  IF Raised(sub) THEN sub
  ELSE CriteriaRest(sub.ret,
                    CriterionParams(sub.self, items[idx + 1], CriterionKey(parent, idx),
                                    itemtype),
                    items, itemtype, parent, idx)

\* the loop of _add_criteria over the criteria from idx on
CriteriaItems(self, items, itemtype, parent, idx) ==
  IF idx >= Len(items) THEN Return(self, EmptyDict)
  ELSE CriteriaOwn(_add_criteria(self, DictGet(items[idx + 1], "criteria", List(<< >>)),
                                 itemtype, <<CriterionKey(parent, idx)>>),
                   items, itemtype, parent, idx)

_add_criteria(self, criteria, itemtype, parent) ==
  IF criteria.t \notin {"list", "tuple", "set"}
  THEN Raise(self, CriteriaError)
  ELSE CriteriaItems(self, criteria.items, itemtype, parent, 0)

\* criterion['meta'] = True
TagMeta(criterion) == DictSet(criterion, "meta", PyTrue)

\* metacriteria once the loop of search has tagged each of them
TagAll(metacriteria) == [i \in 1..Len(metacriteria) |-> TagMeta(metacriteria[i])]

\* for criterion in metacriteria: criterion['meta'] = True;
\* criteria.append(criterion).  Only a list has append: on anything else the
\* first metacriterion is tagged and AttributeError is raised.  The caller's
\* objects are changed in place (self.objs).
AppendMeta(self, criteria, metacriteria) ==
  IF Len(metacriteria) = 0
  THEN Return([self EXCEPT !.objs = [criteria |-> criteria,
                                     metacriteria |-> metacriteria]], None)
  ELSE IF criteria.t # "list"
  THEN Raise([self EXCEPT !.objs = [criteria |-> criteria,
                                    metacriteria |-> [metacriteria EXCEPT ![1] = TagMeta(@)]]],
             AttributeError)
  ELSE Return([self EXCEPT !.objs =
                 [criteria |-> List(criteria.items \o TagAll(metacriteria)),
                  metacriteria |-> TagAll(metacriteria)]],
              None)

\* the handlers of search, and _catch_errors around it
SearchResponse(self, outcome) ==
  CASE outcome = "transport" -> Raise(self, CommunicationError)
    [] outcome \in {"200", "206"} -> Return(self, PyStr(<<"d", "a", "t", "a">>))
    [] outcome \in {"400", "401"} -> Raise(self, GLPIErrorResponse)
    [] OTHER -> Raise(self, UnknownError)

\* kwargs without the three arguments search pops
OtherArgs(kwargs) ==
  [k \in DOMAIN kwargs \ {"forcedisplay", "criteria", "metacriteria"} |-> kwargs[k]]

\* params.update(kwargs) and the request, cr being what _add_criteria returned
SearchSend(fd, cr, itemtype, kwargs, outcome) ==
  IF Raised(cr) THEN cr
  ELSE SearchResponse(Get(cr.self, "search", itemtype,
                          DictUpdate(DictUpdate(fd, cr.ret), OtherArgs(kwargs)),
                          outcome),
                      outcome)

\* the criteria compiled, am being what the loop over metacriteria left
SearchCompile(fd, am, itemtype, kwargs, outcome) ==
  IF Raised(am) THEN am
  ELSE SearchSend(fd, _add_criteria(am.self, am.self.objs.criteria, itemtype, << >>),
                  itemtype, kwargs, outcome)

\* the criteria and metacriteria, fd being what _add_forcedisplay returned
SearchCriteria(fd, itemtype, kwargs, outcome) ==
  IF Raised(fd) THEN fd
  ELSE SearchCompile(fd.ret,
                     AppendMeta(fd.self, DictGet(kwargs, "criteria", List(<< >>)),
                                DictGet(kwargs, "metacriteria", << >>)),
                     itemtype, kwargs, outcome)

search(self, itemtype, kwargs) ==
  SearchCriteria(_add_forcedisplay(self, itemtype, DictGet(kwargs, "forcedisplay", << >>)),
                 itemtype, kwargs, self.net.search)

----------------------------------------------------------------------------
(* The remote side and the arguments the calls are made with. *)

\* two item types
Computer == <<"C">>
Entity == <<"E">>
ItemTypes == {Computer, Entity}

\* a field descriptor of a listing, under its key
Desc(key, uid) == [field_id |-> key, hasuid |-> TRUE, uid |-> uid]
NoUid(key) == [field_id |-> key, hasuid |-> FALSE, uid |-> << >>]

\* the listings of Computer: the second renumbers "n", and has a uid whose
\* separator is not a dot and a uid of another item type
ComputerListing1 ==
  << NoUid(<<"c">>),
     Desc(<<"1">>, <<"C", ".", "n">>),
     Desc(<<"4", "5">>, <<"C", ".", "O", ".", "n">>),
     Desc(<<"3">>, <<"C", ".", "7">>) >>
ComputerListing2 ==
  << NoUid(<<"c">>),
     Desc(<<"2">>, <<"C", ".", "n">>),
     Desc(<<"4", "5">>, <<"C", ".", "O", ".", "n">>),
     Desc(<<"8">>, <<"C", "x", "o">>),
     Desc(<<"5">>, <<"E", ".", "n">>) >>
EntityListing ==
  << Desc(<<"1">>, <<"E", ".", "n">>), NoUid(<<"c">>) >>

Listings(itemtype) ==
  IF itemtype = Computer THEN {ComputerListing1, ComputerListing2} ELSE {EntityListing}

\* field identifiers given to field_id and in forcedisplay
UidN == PyStr(<<"n">>)
UidOsName == PyStr(<<"O", ".", "n">>)
Int45 == PyInt(<<"4", "5">>)
FieldUids ==
  {Int45, PyStr(<<"4", "5">>), PyStr(<<"4", "\n">>), UidN, UidOsName,
   PyStr(<<"7">>), PyStr(<<"o">>)}

\* field ids given to field_uid
FieldIds ==
  {PyInt(<<"1">>), PyStr(<<"1">>), PyStr(<<"2">>), PyStr(<<"3">>),
   PyStr(<<"4", "5">>), PyStr(<<"9">>)}

\* all the sequences over S of length at most n
RECURSIVE SeqsUpTo(_, _)
SeqsUpTo(S, n) ==
  IF n = 0 THEN {<< >>}
  ELSE LET shorter == SeqsUpTo(S, n - 1)
       IN  shorter \cup {Append(q, x) : q \in shorter, x \in S}

Contains == PyStr(<<"c">>)
\* {"field": 45, "searchtype": "contains", "value": "U"}
CritNumeric ==
  [field |-> Int45, searchtype |-> Contains, value |-> PyStr(<<"U">>)]
\* a symbolic field, and a value with a quote
CritSymbolic ==
  [link |-> PyStr(<<"A">>), field |-> UidOsName, searchtype |-> Contains,
   value |-> PyStr(<<"O", "'", "B">>)]
\* sub-criteria on two levels, a value with two quotes and one that is no string
CritGroup ==
  [link |-> PyStr(<<"O">>),
   criteria |-> List(<<
     [field |-> UidN, searchtype |-> Contains, value |-> PyStr(<<"'", "'">>)],
     [link |-> PyStr(<<"A">>),
      criteria |-> Tuple(<< [field |-> PyStr(<<"1">>), value |-> PyInt(<<"7">>)] >>)] >>)]
CriterionPool == {CritNumeric, CritSymbolic, CritGroup}

\* metacriteria: the second already has a 'meta' of its own
MetaNumeric == [link |-> PyStr(<<"A">>), field |-> PyInt(<<"1">>), value |-> PyStr(<<"x">>)]
MetaSymbolic == [field |-> UidN, meta |-> PyStr(<<"n", "o">>), value |-> PyStr(<<"'">>)]
MetaPool == {MetaNumeric, MetaSymbolic}

\* what is passed as criteria: a list of criteria, a tuple of at most one, or
\* something that is no sequence (one criterion alone, None)
CriteriaArgs ==
  {List(q) : q \in SeqsUpTo(CriterionPool, MaxCriteria)}
    \cup {Tuple(q) : q \in SeqsUpTo(CriterionPool, 1)}
    \cup {[t |-> "dict", items |-> <<CritNumeric>>], [t |-> "NoneType", items |-> << >>]}
MetaArgs == SeqsUpTo(MetaPool, MaxMeta)
ForceArgs == SeqsUpTo({PyInt(<<"1">>), UidOsName}, MaxForce)
\* the other keyword arguments of search
ExtraArgs == {EmptyDict, [range |-> PyStr(<<"0", "-", "1">>)]}

\* a few searches, for the runs where the remote side changes as well
SomeCriteriaArgs ==
  {List(<< >>), List(<<CritSymbolic>>), [t |-> "dict", items |-> <<CritNumeric>>]}
SomeMetaArgs == {<< >>, <<MetaSymbolic>>}
SomeForceArgs == {<< >>, <<UidOsName>>}

\* the answers that make a difference: the search request is only sent when
\* the listing request, if any, has succeeded
Nets ==
  {[lso |-> "200", search |-> o] : o \in Outcomes}
    \cup {[lso |-> o, search |-> "200"] : o \in Outcomes \ {"200"}}
\* a remote side that answers every request
OkNet == [lso |-> "200", search |-> "200"]

----------------------------------------------------------------------------
(* The state machine. *)

NoCall == [op |-> "none"]
NoObjs == [criteria |-> None, metacriteria |-> << >>]

\* the object a method is called on
Self(net, objs) ==
  [fields |-> fields, server |-> server, net |-> net, sent |-> << >>,
   exc |-> NoExc, objs |-> objs]

\* GLPI.__init__: self._fields = {}
Init ==
  /\ fields = EmptyDict
  /\ server = [t \in ItemTypes |-> IF t = Computer THEN ComputerListing1 ELSE EntityListing]
  /\ call = NoCall
  /\ conn = [stage |-> "none"]

\* the call returns (or raises): the cache is as the method left it, and the
\* caller has the result and its own objects as the method left them
\* (origin: the argument of the call whose result this call was given)
Returns(op, itemtype, arg, refresh, origin, r) ==
  /\ fields' = r.self.fields
  /\ call' = [op |-> op, itemtype |-> itemtype, arg |-> arg, refresh |-> refresh,
              origin |-> origin, ret |-> r.ret, exc |-> r.self.exc,
              sent |-> r.self.sent, objs |-> r.self.objs]

\* glpi.field_id(itemtype, field_uid, refresh)
FieldId ==
  /\ call = NoCall
  /\ \E itemtype \in ItemTypes, uid \in FieldUids, refresh \in BOOLEAN, lso \in Outcomes :
       Returns("field_id", itemtype, uid, refresh, None,
               field_id(Self([lso |-> lso, search |-> "200"], NoObjs),
                        itemtype, uid, refresh))
  /\ UNCHANGED <<server, conn>>

\* glpi.field_uid(itemtype, field_id, refresh)
FieldUid ==
  /\ call = NoCall
  /\ \E itemtype \in ItemTypes, fid \in FieldIds, refresh \in BOOLEAN, lso \in Outcomes :
       Returns("field_uid", itemtype, fid, refresh, None,
               field_uid(Self([lso |-> lso, search |-> "200"], NoObjs),
                         itemtype, fid, refresh))
  /\ UNCHANGED <<server, conn>>

\* glpi.field_uid(itemtype, glpi.field_id(itemtype, uid)): the caller gives the
\* id field_id has just returned to field_uid, without refresh
FieldUidOfResult ==
  /\ call # NoCall
  /\ call.op = "field_id"
  /\ call.exc = NoExc
  /\ \E lso \in Outcomes :
       Returns("field_uid", call.itemtype, call.ret, FALSE, call.arg,
               field_uid(Self([lso |-> lso, search |-> "200"], NoObjs),
                         call.itemtype, call.ret, FALSE))
  /\ UNCHANGED <<server, conn>>

\* search(**kwargs) with the three arguments and the others
Kwargs(fd, criteria, metacriteria, extra) ==
  DictUpdate([forcedisplay |-> fd, criteria |-> criteria, metacriteria |-> metacriteria],
             extra)

\* glpi.search(itemtype, forcedisplay=..., criteria=..., metacriteria=..., **extra)
SearchCall(itemtypes, forceArgs, criteriaArgs, metaArgs, extraArgs, nets) ==
  /\ call = NoCall
  /\ \E itemtype \in itemtypes, fd \in forceArgs, criteria \in criteriaArgs,
        metacriteria \in metaArgs, extra \in extraArgs, net \in nets :
       Returns("search", itemtype, Kwargs(fd, criteria, metacriteria, extra), FALSE, None,
               search(Self(net, [criteria |-> criteria, metacriteria |-> metacriteria]),
                      itemtype, Kwargs(fd, criteria, metacriteria, extra)))
  /\ UNCHANGED <<server, conn>>

\* searches of Computer, with every combination of arguments, answered
Search == SearchCall({Computer}, ForceArgs, CriteriaArgs, MetaArgs, ExtraArgs, {OkNet})

\* a few searches of either item type
SearchSome ==
  SearchCall(ItemTypes, SomeForceArgs, SomeCriteriaArgs, SomeMetaArgs, {EmptyDict}, Nets)

\* glpi.search(itemtype, criteria=c, metacriteria=m, ...) a second time, with
\* the objects c and m of the call that has just sent its request, as that call
\* left them
SearchAgain ==
  /\ call # NoCall
  /\ call.op = "search"
  /\ call.origin = None
  /\ Len(call.sent) > 0
  /\ call.sent[Len(call.sent)].endpoint = "search"
  /\ \E net \in Nets :
       Returns("search", call.itemtype,
               Kwargs(call.arg.forcedisplay, call.objs.criteria, call.objs.metacriteria,
                      EmptyDict),
               FALSE,
               [params |-> call.sent[Len(call.sent)].params,
                objs |-> [criteria |-> call.arg.criteria,
                          metacriteria |-> call.arg.metacriteria]],
               search(Self(net, call.objs), call.itemtype,
                      Kwargs(call.arg.forcedisplay, call.objs.criteria,
                             call.objs.metacriteria, EmptyDict)))
  /\ UNCHANGED <<server, conn>>

\* the remote side changes the search options of an item type
ServerUpdate ==
  /\ call = NoCall
  /\ \E itemtype \in ItemTypes :
     \E listing \in Listings(itemtype) :
       /\ listing # server[itemtype]
       /\ server' = [server EXCEPT ![itemtype] = listing]
  /\ UNCHANGED <<fields, call, conn>>

\* the caller goes on after the call: the client is synchronous, one call at
\* a time
Continue ==
  /\ call # NoCall
  /\ call' = NoCall
  /\ UNCHANGED <<fields, server, conn>>

\* the client with its lookups, a few searches, and a remote side that changes
Next ==
  \/ FieldId
  \/ FieldUid
  \/ FieldUidOfResult
  \/ SearchSome
  \/ SearchAgain
  \/ ServerUpdate
  \/ Continue

Spec == Init /\ [][Next]_vars

\* the searches of a client whose remote side answers and does not change
NextSearch == Search \/ Continue

SpecSearch == Init /\ [][NextSearch]_vars

----------------------------------------------------------------------------
(* The session: GLPI(...), _init_session, kill_session and connect.  The    *)
(* client is a record of its session's headers, the requests it has sent,   *)
(* the exception raised (if any) and what the remote side answers.          *)

InvalidAuth == "GLPIError: invalid 'auth' parameter"
IndexError == "IndexError"
BodyError == "an exception of the body of the with block"

\* if x: of a user agent (None and '' are false)
Truthy(x) == x # None /\ x.v # << >>

\* b64encode(text): the encoded text, which is not the text
B64(text) == [b64 |-> text]

\* ':'.join(auth)
RECURSIVE JoinColon(_)
JoinColon(items) ==
  IF items = << >> THEN << >>
  ELSE IF Len(items) = 1 THEN items[1].v
  ELSE items[1].v \o <<":">> \o JoinColon(Tail(items))

\* requests.Session(): the headers of a new session
DefaultHeaders == ("User-Agent" :> PyStr(<<"r", "e", "q", "u", "e", "s", "t", "s">>))

\* the client while __init__ runs: a new session, nothing sent
NewClient(net) ==
  [headers |-> DefaultHeaders, sent |-> << >>, exc |-> NoExc, net |-> net]

\* self.session.get(url, headers=..., params=...): the request goes out with
\* the headers of the session, updated with its own
SessionGet(self, endpoint, headers, params, outcome) ==
  [self EXCEPT !.sent = Append(@, [endpoint |-> endpoint,
                                    headers |-> DictUpdate(self.headers, headers),
                                    params |-> params, outcome |-> outcome])]

\* init_headers, before the credentials
InitHeaders(apptoken, user_agent) ==
  DictUpdate(("Content-Type" :> PyStr(<<"j", "s", "o", "n">>)) @@ ("App-Token" :> apptoken),
             IF Truthy(user_agent) THEN ("User-Agent" :> user_agent) ELSE EmptyDict)

\* the Authorization header of the credentials
Authorization(auth) ==
  IF auth.t \in {"list", "tuple"}
  THEN [scheme |-> "Basic", credentials |-> B64(JoinColon(auth.items))]
  ELSE [scheme |-> "user_token", credentials |-> auth.v]

\* the parameters of the credentials
CredentialParams(auth) ==
  IF auth.t \in {"list", "tuple"}
  THEN [login |-> auth.items[1], password |-> auth.items[2]]
  ELSE [user_token |-> auth]

\* an _init_session that sends the Authorization header whatever
\* use_headers is
CredentialsInBoth(auth, use_headers) ==
  [headers |-> ("Authorization" :> Authorization(auth)),
   params |-> IF use_headers THEN EmptyDict ELSE CredentialParams(auth)]

\* where the credentials go: the Authorization header, or the parameters
\* (a list or tuple has two elements or more here when use_headers is false)
Credentials(auth, use_headers) ==
  IF use_headers
  THEN [headers |-> ("Authorization" :> Authorization(auth)), params |-> EmptyDict]
  ELSE [headers |-> EmptyDict, params |-> CredentialParams(auth)]

\* the handlers of _init_session, and _catch_errors around it
InitSessionResponse(self, outcome) ==
  CASE outcome = "transport" -> Raise(self, CommunicationError)
    [] outcome = "200" -> Return(self, self.net.token)
    [] outcome \in {"400", "401"} -> Raise(self, GLPIErrorResponse)
    [] OTHER -> Raise(self, UnknownError)

\* the request of _init_session, cr being where the credentials go
InitSessionSend(self, apptoken, user_agent, cr) ==
  InitSessionResponse(
    SessionGet(self, "initSession",
               DictUpdate(InitHeaders(apptoken, user_agent), cr.headers),
               cr.params, self.net.init),
    self.net.init)

\* auth[0], auth[1] raise IndexError on a list or tuple of less than two
_init_session(self, apptoken, auth, user_agent, use_headers) ==
  IF auth.t \in {"list", "tuple"} /\ Len(auth.items) > 2
  THEN Raise(self, InvalidAuth)
  ELSE IF auth.t \in {"list", "tuple"} /\ ~use_headers /\ Len(auth.items) < 2
  THEN Raise(self, IndexError)
  ELSE InitSessionSend(self, apptoken, user_agent, Credentials(auth, use_headers))

\* self.session.headers = headers, r being what _init_session returned
SetHeaders(r, apptoken, user_agent) ==
  IF Raised(r) THEN r
  ELSE Return([r.self EXCEPT !.headers =
                 DictUpdate(("Content-Type" :> PyStr(<<"j", "s", "o", "n">>))
                              @@ ("Session-Token" :> r.ret) @@ ("App-Token" :> apptoken),
                            IF Truthy(user_agent) THEN ("User-Agent" :> user_agent)
                            ELSE EmptyDict)],
              None)

\* GLPI.__init__(url, apptoken, auth, verify_certs, use_headers, user_agent)
GLPI(apptoken, auth, use_headers, user_agent, net) ==
  SetHeaders(_init_session(NewClient(net), apptoken, auth, user_agent, use_headers),
             apptoken, user_agent)

\* the handlers of kill_session, and _catch_errors around it; the method has
\* no return statement
KillSessionResponse(self, outcome) ==
  CASE outcome = "transport" -> Raise(self, CommunicationError)
    [] outcome = "200" -> Return(self, None)
    [] outcome \in {"400", "401"} -> Raise(self, GLPIErrorResponse)
    [] OTHER -> Raise(self, UnknownError)

kill_session(self) ==
  KillSessionResponse(SessionGet(self, "killSession", EmptyDict, EmptyDict, self.net.kill),
                      self.net.kill)

\* connect, up to its yield: glpi = GLPI(url, apptoken, auth, verify_certs,
\* use_headers=use_headers)
connect_enter(apptoken, auth, use_headers, user_agent, net) ==
  GLPI(apptoken, auth, use_headers, None, net)

\* the exception that leaves the block: that of kill_session if it raised,
\* else that of the body
AfterFinally(r, raised) ==
  IF Raised(r) THEN r
  ELSE IF raised # NoExc THEN Raise(r.self, raised) ELSE r

\* a connect without try/finally: the session is killed when the body
\* finishes normally only
connect_exit_NoFinally(self, raised) ==
  IF raised # NoExc THEN Raise(self, raised) ELSE kill_session(self)

\* connect, from its yield: finally: glpi.kill_session()
connect_exit(self, raised) == AfterFinally(kill_session(self), raised)

\* the arguments
AppToken == PyStr(<<"a", "p", "p">>)
UserToken == PyStr(<<"t", "o", "k">>)
User == PyStr(<<"u">>)
Password == PyStr(<<"p", "w">>)
Auths ==
  {UserToken, Tuple(<<User, Password>>), List(<<User, Password>>), Tuple(<<User>>),
   List(<< >>), List(<<User, Password, UserToken>>)}
UserAgents == {None, PyStr(<<"X">>)}
SessionTokens == {PyStr(<<"s", "1">>), PyStr(<<"s", "2">>)}

\* what the remote side answers to initSession, and the token it gives
InitNets ==
  {[init |-> "200", token |-> t, kill |-> "200"] : t \in SessionTokens}
    \cup {[init |-> o, token |-> None, kill |-> "200"] : o \in Outcomes \ {"200"}}

NoConn == [stage |-> "none"]

\* the client constructed, or the exception of the construction
Constructed(via, auth, use_headers, user_agent, stage, r) ==
  conn' = [stage |-> IF Raised(r) THEN "failed" ELSE stage, via |-> via, auth |-> auth,
           use_headers |-> use_headers, user_agent |-> user_agent,
           client |-> r.self, killed |-> FALSE, raised |-> NoExc]

\* glpi = GLPI(url, apptoken, auth, use_headers=..., user_agent=...)
Construct ==
  /\ conn = NoConn
  /\ \E auth \in Auths, use_headers \in BOOLEAN, user_agent \in UserAgents, net \in InitNets :
       Constructed("GLPI", auth, use_headers, user_agent, "client",
                   GLPI(AppToken, auth, use_headers, user_agent, net))
  /\ UNCHANGED <<fields, server, call>>

\* with connect(url, apptoken, auth, use_headers=..., user_agent=...) as glpi:
ConnectEnter ==
  /\ conn = NoConn
  /\ \E auth \in Auths, use_headers \in BOOLEAN, user_agent \in UserAgents, net \in InitNets :
       Constructed("connect", auth, use_headers, user_agent, "inside",
                   connect_enter(AppToken, auth, use_headers, user_agent, net))
  /\ UNCHANGED <<fields, server, call>>

\* the client with the answer its next request will get
Answered(client, outcome) == [client EXCEPT !.net.kill = outcome, !.exc = NoExc]

\* glpi.kill_session(), by the owner of the client or in the body of the block
KillSession ==
  /\ conn.stage \in {"client", "inside"}
  /\ ~conn.killed
  /\ \E outcome \in Outcomes :
       conn' = [conn EXCEPT !.client = kill_session(Answered(conn.client, outcome)).self,
                            !.killed = TRUE]
  /\ UNCHANGED <<fields, server, call>>

\* the block is left: its body has finished, or raised
ConnectExit ==
  /\ conn.stage = "inside"
  /\ \E raised \in {NoExc, BodyError}, outcome \in Outcomes :
       conn' = [conn EXCEPT !.client = connect_exit(Answered(conn.client, outcome), raised).self,
                            !.stage = "left", !.raised = raised]
  /\ UNCHANGED <<fields, server, call>>

\* the client is dropped
Forget ==
  /\ conn.stage \in {"client", "failed", "left"}
  /\ conn' = NoConn
  /\ UNCHANGED <<fields, server, call>>

NextSession == Construct \/ ConnectEnter \/ KillSession \/ ConnectExit \/ Forget

SpecSession == Init /\ [][NextSession]_vars

----------------------------------------------------------------------------
(* The public operations: one request each, answered through the table of   *)
(* handlers of the operation; upload_document and download_document, which  *)
(* have no table.  A response is its status code and the shape of its body: *)
(* the payload of a success, GLPI's pair [code, message], such a pair with  *)
(* the code ERROR_GLPI_DELETE, or text that is not JSON.                    *)

ValueError == "ValueError"
JSONDecodeError == "JSONDecodeError"
InvalidDocument == "GLPIError: (ERROR_GLPI_INVALID_DOCUMENT) error"
NoDirectory == "GLPIError: unable to download file"

\* r.json(), or what a handler takes from it
Value == [t |-> "json"]

Successes == {"200", "201", "204", "206", "207"}
Responses ==
  {[status |-> s, body |-> "payload"] : s \in Successes}
    \cup {[status |-> s, body |-> b] : s \in {"400", "401", "404", "500"},
                                       b \in {"pair", "delete_pair", "text"}}

\* what a request can meet: a response, or a failure of the transport
Answers == Responses \cup {[status |-> "transport", body |-> "none"]}

\* response.json() on a body that is not JSON raises the JSON error of the
\* installed requests: a ValueError, or a RequestException which
\* _catch_errors turns into a communication error
JsonErrors == {JSONDecodeError, CommunicationError}

\* the client of an operation: answers are the responses its requests get,
\* in order
OpsClient(answers, json) ==
  [sent |-> << >>, exc |-> NoExc, warnings |-> << >>,
   net |-> [answers |-> answers, json |-> json]]

\* self.session.get/post/put/delete(...): the request is issued
Request(self, method, endpoint, params) ==
  [self EXCEPT !.sent = Append(@, [method |-> method, endpoint |-> endpoint,
                                    params |-> params,
                                    outcome |-> self.net.answers[Len(self.sent) + 1].status,
                                    body |-> self.net.answers[Len(self.sent) + 1].body])]

\* the response of the last request
LastResponse(self) == self.sent[Len(self.sent)]

\* a _catch_errors that lets the exception of the transport through
CatchErrorsNot(self) == Raise(self, "ConnectionError")

\* _catch_errors: except RequestException: raise GLPIError('communication
\* error: ...')
CatchErrors(self) == Raise(self, CommunicationError)

\* _glpi_error: '({}) {}'.format(*response.json()); a payload is formatted
\* by its first two elements
_glpi_error(self, response) ==
  IF response.body = "text" THEN Raise(self, self.net.json)
  ELSE Raise(self, GLPIErrorResponse)

\* _unknown_error: 'unknown error: [status/reason] text'
_unknown_error(self, response) == Raise(self, UnknownError)

\* the handler of delete for 400
DeleteError(self, response) ==
  IF response.body = "text" THEN Raise(self, self.net.json)
  ELSE IF response.body = "delete_pair" THEN Return(self, [t |-> "message"])
  ELSE _glpi_error(self, response)

Table(values, errors) ==
  [s \in values \cup errors |-> IF s \in values THEN "value" ELSE "error"]

Getters ==
  {"get_my_profiles", "get_active_profile", "get_my_entities", "get_active_entities",
   "get_full_session", "get_sub_items", "get_multiple_items", "list_search_options"}
Setters == {"set_active_profile", "set_active_entities"}
Adders == {"add", "add_sub_items"}
Updaters == {"update", "update_sub_items"}
Deleters == {"delete", "delete_sub_items"}
TableOps ==
  Getters \cup Setters \cup Adders \cup Updaters \cup Deleters
    \cup {"get_config", "get_item", "get_all_items"}

\* the table of handlers of each operation
Handlers(op) ==
  CASE op \in Getters \cup {"set_active_entities"} -> Table({"200"}, {"400", "401"})
    [] op = "set_active_profile" -> Table({"200"}, {"400", "401", "404"})
    [] op = "get_config" -> Table({"200"}, {"400"})
    [] op = "get_item" -> Table({"200"}, {"400", "401"}) @@ ("404" :> "none")
    [] op = "get_all_items" -> Table({"200", "206"}, {"400", "401"})
    [] op \in Adders -> Table({"201", "207"}, {"400", "401"})
    [] op \in Updaters -> Table({"200", "201", "207"}, {"400", "401"})
    [] op \in Deleters -> ("400" :> "delete") @@ Table({"200", "204", "207"}, {"401"})

Method(op) ==
  CASE op \in Getters \cup {"get_config", "get_item", "get_all_items"} -> "GET"
    [] op \in Setters \cup Adders -> "POST"
    [] op \in Updaters -> "PUT"
    [] op \in Deleters -> "DELETE"

\* {...}.get(response.status_code, _unknown_error)(response)
Handle(self, op, response) ==
  IF response.outcome \notin DOMAIN Handlers(op) THEN _unknown_error(self, response)
  ELSE CASE Handlers(op)[response.outcome] = "value" -> Return(self, Value)
         [] Handlers(op)[response.outcome] = "none" -> Return(self, None)
         [] Handlers(op)[response.outcome] = "delete" -> DeleteError(self, response)
         [] OTHER -> _glpi_error(self, response)

\* the request has been issued: it failed, or its response is handled
Dispatch(self, op) ==
  IF LastResponse(self).outcome = "transport" THEN CatchErrors(self)
  ELSE Handle(self, op, LastResponse(self))

\* an operation that has a table of handlers
Operation(self, op, endpoint, params) ==
  Dispatch(Request(self, Method(op), endpoint, params), op)

\* except GLPIError as err: warnings.warn(_WARN_DEL_ERR.format(doc_id,
\* str(err))): doc_id is the integer of the response and the first field of
\* _WARN_DEL_ERR is {:s}, so format raises ValueError; then raise GLPIError(
\* '(ERROR_GLPI_INVALID_DOCUMENT) ...'), r being what delete returned
AfterPurge(r) ==
  IF ~Raised(r) THEN Raise(r.self, InvalidDocument)
  ELSE IF r.self.exc \in {CommunicationError, GLPIErrorResponse, UnknownError}
  THEN Raise(r.self, ValueError)
  ELSE r

\* if error is not None: the warning, then
\* self.delete('Document', {'id': doc_id}, force_purge=True)
Purge(self) ==
  AfterPurge(Operation([self EXCEPT !.warnings = Append(@, "_WARN_DEL_DOC")],
                       "delete", "Document",
                       [force_purge |-> PyStr(<<"t", "r", "u", "e">>)]))

\* upload_document, its request issued
Uploaded(self, error) ==
  IF LastResponse(self).outcome = "transport" THEN CatchErrors(self)
  ELSE IF LastResponse(self).outcome # "201" THEN _glpi_error(self, LastResponse(self))
  ELSE IF error THEN Purge(self)
  ELSE Return(self, Value)

\* upload_document(name, filepath), error being whether the upload result of
\* the response reports an error of the file
upload_document(self, error) ==
  Uploaded(Request(self, "POST", "Document", EmptyDict), error)

\* download_document, its request issued
Downloaded(self) ==
  IF LastResponse(self).outcome = "transport" THEN CatchErrors(self)
  ELSE IF LastResponse(self).outcome # "200" THEN _glpi_error(self, LastResponse(self))
  ELSE Return(self, [t |-> "filepath"])

\* download_document(doc_id, dirpath), exists being os.path.exists(dirpath)
download_document(self, exists) ==
  IF ~exists THEN Raise(self, NoDirectory)
  ELSE Downloaded(Request(self, "GET", "Document/id", EmptyDict))

\* the operation returns
OpReturns(op, arg, r) ==
  call' = [op |-> op, arg |-> arg, ret |-> r.ret, exc |-> r.self.exc,
           sent |-> r.self.sent, warnings |-> r.self.warnings]

\* glpi.<operation>(...), for the operations that have a table of handlers
TableOperation ==
  /\ call = NoCall
  /\ \E op \in TableOps, answer \in Answers, json \in JsonErrors :
       OpReturns(op, None, Operation(OpsClient(<<answer>>, json), op, op, EmptyDict))
  /\ UNCHANGED <<fields, server, conn>>

\* glpi.upload_document(name, filepath)
UploadDocument ==
  /\ call = NoCall
  /\ \E answer \in Answers, purge \in Answers, error \in BOOLEAN, json \in JsonErrors :
       OpReturns("upload_document", [error |-> error],
                 upload_document(OpsClient(<<answer, purge>>, json), error))
  /\ UNCHANGED <<fields, server, conn>>

\* glpi.download_document(doc_id, dirpath)
DownloadDocument ==
  /\ call = NoCall
  /\ \E answer \in Answers, exists \in BOOLEAN, json \in JsonErrors :
       OpReturns("download_document", [exists |-> exists],
                 download_document(OpsClient(<<answer>>, json), exists))
  /\ UNCHANGED <<fields, server, conn>>

\* one client is followed at a time: a call of an operation, of field_id,
\* field_uid or search, or the steps of a session
NextOps ==
  \/ conn = NoConn /\ TableOperation
  \/ conn = NoConn /\ UploadDocument
  \/ conn = NoConn /\ DownloadDocument
  \/ conn = NoConn /\ FieldId
  \/ conn = NoConn /\ FieldUid
  \/ conn = NoConn /\ SearchSome
  \/ conn = NoConn /\ Continue
  \/ call = NoCall /\ Construct
  \/ call = NoCall /\ ConnectEnter
  \/ call = NoCall /\ KillSession
  \/ call = NoCall /\ ConnectExit
  \/ call = NoCall /\ Forget

SpecOps == Init /\ [][NextOps]_vars

----------------------------------------------------------------------------
(* What the properties are stated with. *)

\* a value made of digits only
AllDigits(s) == Len(s) >= 1 /\ \A i \in 1..Len(s) : s[i] \in Digits

\* a value with digits and one line break after them
DigitsAndNewline(s) ==
  Len(s) >= 2 /\ s[Len(s)] = "\n" /\ AllDigits(SubSeq(s, 1, Len(s) - 1))

\* a symbolic name: some character of it is neither a digit nor a line break
Symbolic(s) == \E i \in 1..Len(s) : s[i] \notin Digits \cup {"\n"}

\* the requests of a call for the search options of an item type
ListingRequests(sent, itemtype) ==
  {i \in DOMAIN sent : sent[i].endpoint = "listSearchOptions" /\ sent[i].itemtype = itemtype}

\* the exceptions of a request that did not succeed
FetchFailed(exc) == exc \in {CommunicationError, GLPIErrorResponse, UnknownError}

\* the cache says the same of an item type before and after a step
SameEntry(T) ==
  /\ T \in DOMAIN fields <=> T \in DOMAIN fields'
  /\ T \in DOMAIN fields => fields'[T] = fields[T]

\* a call is made in this step
Called == call = NoCall /\ call' # NoCall

----------------------------------------------------------------------------
(* The Field Directory. *)

\* C1: the search options of an item type T are requested only by a lookup of
\* T that finds T not cached or that asks for a refresh, and once in the call
\* at most; a lookup of T without refresh that finds T cached sends no request,
\* leaves the cache as it is and answers a symbolic name from the cached
\* mapping; no call changes what is cached for another item type.
C1_FetchedOncePerItemType ==
  [][Called =>
       \A T \in ItemTypes :
         /\ ListingRequests(call'.sent, T) # {} =>
              /\ call'.itemtype = T
              /\ T \notin DOMAIN fields \/ call'.refresh
         /\ Cardinality(ListingRequests(call'.sent, T)) <= 1
         /\ (call'.itemtype = T /\ T \in DOMAIN fields /\ ~call'.refresh) =>
              /\ ListingRequests(call'.sent, T) = {}
              /\ fields' = fields
              /\ (call'.op = "field_id" /\ Symbolic(call'.arg.v)
                    /\ call'.arg.v \in DOMAIN fields[T]) =>
                   /\ call'.exc = NoExc
                   /\ call'.ret = PyStr(fields[T][call'.arg.v])
         /\ call'.itemtype # T => SameEntry(T)
  ]_vars

\* a name is answered from the cache, without a request, with an id that the
\* remote side no longer lists for it
C1_AnsweredFromCache ==
  /\ call.op = "field_id"
  /\ Symbolic(call.arg.v)
  /\ ~call.refresh
  /\ call.exc = NoExc
  /\ call.sent = << >>
  /\ call.arg.v \in DOMAIN MapItems(call.itemtype, server[call.itemtype])
  /\ MapItems(call.itemtype, server[call.itemtype])[call.arg.v] # call.ret.v

C3_AbsentRaisesKeyError ==
  /\ (call.op = "field_id" /\ Symbolic(call.arg.v) /\ ~FetchFailed(call.exc)
        /\ call.arg.v \notin DOMAIN fields[call.itemtype]) =>
       (call.exc = KeyError /\ call.ret = None)
  /\ (call.op = "field_uid" /\ ~FetchFailed(call.exc)
        /\ \A k \in DOMAIN fields[call.itemtype] : fields[call.itemtype][k] # call.arg.v) =>
       (call.exc = KeyError /\ call.ret = None)

\* a name was not in the mapping that the call fetched
C3_AbsentAfterFetch ==
  /\ call.op = "field_id"
  /\ call.exc = KeyError
  /\ Len(call.sent) = 1
  /\ call.sent[1].outcome = "200"
  /\ call.arg.v \notin DOMAIN fields[call.itemtype]

\* C4: field_uid of the id that field_id returned for a name u of the mapping
\* returns u, without refresh in between, when u is not made of digits (with
\* or without a line break after them).
C4_RoundTripOfNames ==
  (call.op = "field_uid" /\ call.origin # None
     /\ call.itemtype \in DOMAIN fields
     /\ call.origin.v \in DOMAIN fields[call.itemtype]
     /\ ~AllDigits(call.origin.v) /\ ~DigitsAndNewline(call.origin.v)) =>
    (call.exc = NoExc /\ call.ret = call.origin)

\* C4 as the specification has it: for every name of the mapping
C4_RoundTrip ==
  (call.op = "field_uid" /\ call.origin # None
     /\ call.itemtype \in DOMAIN fields
     /\ call.origin.v \in DOMAIN fields[call.itemtype]) =>
    (call.exc = NoExc /\ call.ret = call.origin)

\* the name OperatingSystem.name went to its id and came back
C4_NameCameBack ==
  /\ call.op = "field_uid"
  /\ call.origin = UidOsName
  /\ call.arg = PyStr(<<"4", "5">>)
  /\ call.ret = UidOsName

----------------------------------------------------------------------------
(* The search compiler.  The properties are about the request that search   *)
(* sent: its parameters, against the arguments of the call.                 *)

\* search sent its request
SearchSent ==
  /\ call.op = "search"
  /\ Len(call.sent) > 0
  /\ call.sent[Len(call.sent)].endpoint = "search"

\* the parameters of the request
Params == call.sent[Len(call.sent)].params

\* what the caller passed
Forced == call.arg.forcedisplay
Plain == call.arg.criteria
Meta == call.arg.metacriteria
ExtraKeys == DOMAIN call.arg \ {"forcedisplay", "criteria", "metacriteria"}

\* the criteria that were compiled: the plain ones and the metacriteria
Compiled == call.objs.criteria.items

\* the sub-criteria of a criterion
Children(criterion) ==
  IF "criteria" \in DOMAIN criterion THEN criterion.criteria.items ELSE << >>

\* the prefix of the criterion at index i: criteria[i] at top level (no
\* parent, ""), the parent's prefix followed by [criteria][i] below
PrefixAt(parent, i) ==
  (IF parent = "" THEN "criteria[" ELSE parent \o "[criteria][") \o ToString(i) \o "]"

\* the attributes of the criterion at a position, all but 'criteria', each
\* with the parameter name that the prefix of the position gives it
OwnAttributes(criterion, path, prefix) ==
  {[path |-> path, attr |-> p, value |-> criterion[p], name |-> prefix \o "[" \o p \o "]"] :
     p \in DOMAIN criterion \ {"criteria"}}

\* the attributes of the criteria of a tree: <<i>> is the position of the
\* i-th top-level criterion, path \o <<j>> that of the j-th sub-criterion of
\* the criterion at path
RECURSIVE AttributesUnder(_, _, _)
AttributesUnder(items, path, parent) ==
  UNION {OwnAttributes(items[i + 1], Append(path, i), PrefixAt(parent, i))
           \cup AttributesUnder(Children(items[i + 1]), Append(path, i), PrefixAt(parent, i)) :
         i \in 0..(Len(items) - 1)}

Attributes(items) == AttributesUnder(items, << >>, "")

ForcedKeys == {"forcedisplay[" \o ToString(i) \o "]" : i \in 0..(Len(Forced) - 1)}

\* the id of a field: its digits, or what the cached mapping has for its name
ResolvedId(itemtype, field) ==
  IF AllDigits(field.v) THEN PyStr(field.v) ELSE PyStr(fields[itemtype][field.v])

\* the fields of a search: of forcedisplay and of the criteria at every depth
FieldsOf(forced, items) ==
  {forced[i] : i \in DOMAIN forced}
    \cup {a.value : a \in {b \in Attributes(items) : b.attr = "field"}}

\* C5: the parameters of the criteria are exactly the attributes of the
\* compiled criteria, all but 'criteria', each under the prefix of its
\* position: criteria[i] for the top-level criterion i, the parent's prefix
\* followed by [criteria][j] for its sub-criterion j; no two attributes get
\* the same parameter.
C5_KeysByPosition ==
  SearchSent =>
    /\ DOMAIN Params \ (ForcedKeys \cup ExtraKeys)
         = {a.name : a \in Attributes(Compiled)}
    /\ Cardinality({a.name : a \in Attributes(Compiled)})
         = Cardinality({<<a.path, a.attr>> : a \in Attributes(Compiled)})

\* two top-level criteria, the second with sub-criteria on two levels
C5_NestedGroupSent ==
  /\ SearchSent
  /\ Plain = List(<<CritSymbolic, CritGroup>>)
  /\ Meta = << >>
  /\ "criteria[0][field]" \in DOMAIN Params
  /\ "criteria[1][criteria][0][field]" \in DOMAIN Params
  /\ "criteria[1][criteria][1][criteria][0][value]" \in DOMAIN Params

TopName(i, p) == "criteria[" \o ToString(i) \o "][" \o p \o "]"

\* every metacriterion is in the request with meta = True, at the index that
\* follows the plain criteria, and every plain criterion at its own index
MetaPlaced ==
  /\ SearchSent
  /\ \A j \in 1..Len(Meta) :
       /\ \A p \in DOMAIN Meta[j] \cup {"meta"} :
            TopName(Len(Plain.items) + j - 1, p) \in DOMAIN Params
       /\ Params[TopName(Len(Plain.items) + j - 1, "meta")] = PyTrue
  /\ \A i \in 1..Len(Plain.items) :
       \A p \in DOMAIN Plain.items[i] \ {"criteria"} :
         /\ TopName(i - 1, p) \in DOMAIN Params
         /\ p = "link" => Params[TopName(i - 1, p)] = Plain.items[i][p]

\* the search got as far as its request, or stopped for another reason than a
\* lookup that failed
LookupsDone == SearchSent \/ (~FetchFailed(call.exc) /\ call.exc # KeyError)

\* C7: in a search with criteria in a list or a tuple, every metacriterion
\* is compiled with meta = True at the top-level index P + j, P being the
\* number of plain criteria and j its position among the metacriteria, after
\* the plain criteria at 0..P-1.
C7_MetaAfterPlain ==
  (call.op = "search" /\ Plain.t \in {"list", "tuple"} /\ LookupsDone) => MetaPlaced

\* what holds of C7: the same with the criteria in a list
C7_MetaAfterPlainInList ==
  (call.op = "search" /\ Plain.t = "list" /\ LookupsDone) => MetaPlaced

\* the number of quotes of s before position i
QuotesBefore(s, i) == Cardinality({j \in 1..(i - 1) : s[j] = "'"})

\* s with a quote added after each of its quotes: the character at i goes
\* to i + QuotesBefore(s, i), and the places left are those of the added quotes
Doubled(s) ==
  [k \in 1..(Len(s) + QuotesBefore(s, Len(s) + 1)) |->
     IF \E i \in 1..Len(s) : i + QuotesBefore(s, i) = k
     THEN s[CHOOSE i \in 1..Len(s) : i + QuotesBefore(s, i) = k]
     ELSE "'"]

\* C8: every attribute of a compiled criterion other than field and criteria,
\* at every depth, is emitted with each of its quotes doubled when it is a
\* string, and as it is when it is not.
C8_QuotesDoubled ==
  SearchSent =>
    \A a \in Attributes(Compiled) :
      a.attr # "field" =>
        Params[a.name] =
          IF a.value.t = "str" THEN PyStr(Doubled(a.value.v)) ELSE a.value

\* a value of two quotes one level down, a number two levels down, and the
\* True of a metacriterion
C8_FourQuotes ==
  /\ SearchSent
  /\ Plain = List(<<CritGroup>>)
  /\ Meta = <<MetaSymbolic>>
  /\ Params["criteria[0][criteria][0][value]"] = PyStr(<<"'", "'", "'", "'">>)
  /\ Params["criteria[0][criteria][1][criteria][0][value]"] = PyInt(<<"7">>)
  /\ Params["criteria[1][value]"] = PyStr(<<"'", "'">>)
  /\ Params["criteria[1][meta]"] = PyTrue

\* C9: the request has one parameter forcedisplay[i] for each entry i of
\* forcedisplay, counted from 0, and no other; its value is the id of the
\* entry, resolved as the field of a criterion is, whatever the criteria and
\* the metacriteria.
C9_ForcedDisplayByPosition ==
  SearchSent =>
    /\ DOMAIN Params \ ({a.name : a \in Attributes(Compiled)} \cup ExtraKeys)
         = ForcedKeys
    /\ \A i \in 1..Len(Forced) :
         Params["forcedisplay[" \o ToString(i - 1) \o "]"]
           = ResolvedId(call.itemtype, Forced[i])

\* two entries, a number and a name, with criteria and metacriteria
C9_TwoEntriesSent ==
  /\ SearchSent
  /\ Forced = <<PyInt(<<"1">>), UidOsName>>
  /\ Plain = List(<<CritGroup>>)
  /\ Meta = <<MetaNumeric>>
  /\ Params["forcedisplay[0]"] = PyStr(<<"1">>)
  /\ Params["forcedisplay[1]"] = PyStr(<<"4", "5">>)

\* C10: a search whose criteria is neither a list, a tuple nor a set raises
\* the error of the validation of the criteria, and no request has been sent.
C10_NonSequenceRejectedFirst ==
  (call.op = "search" /\ Plain.t \notin {"list", "tuple", "set"}) =>
    (call.exc = CriteriaError /\ call.sent = << >>)

----------------------------------------------------------------------------
(* The Field Directory: how the mapping is built, and a fetch that fails. *)

\* the name of the claim for a uid: the uid without "T." when it starts with
\* "T.", the uid itself when it does not
WithoutPrefix(itemtype, uid) ==
  IF Len(uid) > Len(itemtype)
       /\ SubSeq(uid, 1, Len(itemtype) + 1) = itemtype \o <<".">>
  THEN SubSeq(uid, Len(itemtype) + 2, Len(uid))
  ELSE uid

\* the call fetched the listing of its item type
Fetched ==
  /\ call.op \in {"field_id", "field_uid", "search"}
  /\ \E i \in ListingRequests(call.sent, call.itemtype) : call.sent[i].outcome = "200"

\* C15: the mapping built from the listing of an item type T has, for every
\* descriptor with a uid, the id of the descriptor under the uid without its
\* leading "T.", or under the whole uid when it does not start with "T.",
\* and nothing else.
C15_LiteralPrefixRemoved ==
  Fetched =>
    {<<k, fields[call.itemtype][k]>> : k \in DOMAIN fields[call.itemtype]}
      = {<<WithoutPrefix(call.itemtype, server[call.itemtype][i].uid),
           server[call.itemtype][i].field_id>> :
         i \in {j \in DOMAIN server[call.itemtype] : server[call.itemtype][j].hasuid}}

\* C18: a second search with the criteria and metacriteria objects of a first
\* one sends the parameters that the first one sent, and both calls leave
\* the objects as the caller made them.
C18_SameParametersAgain ==
  (call.op = "search" /\ call.origin # None
     /\ Len(call.sent) > 0 /\ call.sent[Len(call.sent)].endpoint = "search") =>
    /\ call.sent[Len(call.sent)].params = call.origin.params
    /\ call.objs = call.origin.objs

\* C19: a lookup whose fetch fails raises the error of the fetch, has sent
\* one request and leaves the cache as it was, refresh or not; and a lookup
\* of a name, or of the name of an id, for an item type that is not cached
\* requests its search options, whatever happened before.
C19_FailedFetchLeavesCache ==
  [][(call' # call /\ call' # NoCall /\ call'.op \in {"field_id", "field_uid"}) =>
       /\ FetchFailed(call'.exc) =>
            /\ fields' = fields
            /\ Len(call'.sent) = 1
            /\ call'.sent[1].outcome # "200"
            /\ call'.ret = None
       /\ (Len(call'.sent) > 0 /\ call'.sent[1].outcome # "200") => FetchFailed(call'.exc)
       /\ (call'.itemtype \notin DOMAIN fields
             /\ (call'.op = "field_uid" \/ Symbolic(call'.arg.v))) =>
            ListingRequests(call'.sent, call'.itemtype) # {}
  ]_vars

\* a refresh failed for an item type that was cached, and its mapping is there
C19_RefreshFailedKeepsMapping ==
  /\ call.op = "field_id"
  /\ call.refresh
  /\ FetchFailed(call.exc)
  /\ call.itemtype \in DOMAIN fields
  /\ DOMAIN fields[call.itemtype] # {}

----------------------------------------------------------------------------
(* The session. *)

\* the requests of the client to an endpoint
SessionRequests(client, endpoint) ==
  {i \in 1..Len(client.sent) : client.sent[i].endpoint = endpoint}

\* the session token of the request
TokenOf(request) ==
  IF "Session-Token" \in DOMAIN request.headers THEN request.headers["Session-Token"]
  ELSE None

\* C12: a connect block is entered with exactly one initSession request
\* sent, and that one answered with the session; leaving it, its body
\* finished or raised, sends exactly one request more, a killSession with the
\* token of the session opened at entry; when the opening fails nothing is
\* sent to killSession.
C12_SessionReleasedOnLeaving ==
  [][/\ (conn.stage = "none" /\ conn'.stage = "inside")
          => /\ Cardinality(SessionRequests(conn'.client, "initSession")) = 1
             /\ Len(conn'.client.sent) = 1
             /\ conn'.client.sent[1].outcome = "200"
     /\ (conn.stage = "inside" /\ conn'.stage = "left")
          => /\ Len(conn'.client.sent) = Len(conn.client.sent) + 1
             /\ SubSeq(conn'.client.sent, 1, Len(conn.client.sent)) = conn.client.sent
             /\ conn'.client.sent[Len(conn'.client.sent)].endpoint = "killSession"
             /\ TokenOf(conn'.client.sent[Len(conn'.client.sent)]) = conn.client.net.token
             /\ conn.client.net.token \in SessionTokens
     /\ (conn'.stage = "failed" /\ conn'.via = "connect")
          => SessionRequests(conn'.client, "killSession") = {}]_vars

\* a block whose body raised has been left, and its session was killed
C12_LeftAfterBodyRaised ==
  /\ conn.stage = "left"
  /\ conn.raised = BodyError
  /\ ~conn.killed
  /\ Cardinality(SessionRequests(conn.client, "killSession")) = 1

\* auth is a list or tuple that has not exactly two elements
NotAPair(auth) == auth.t \in {"list", "tuple"} /\ Len(auth.items) # 2

\* C16: a client constructed with a list or tuple of auth that has not
\* exactly two elements is not constructed: GLPIError "invalid 'auth'
\* parameter" is raised and no initSession request is sent, whatever
\* use_headers is.
C16_NotAPairRejected ==
  (conn.stage # "none" /\ NotAPair(conn.auth))
    => /\ conn.stage = "failed"
       /\ conn.client.exc = InvalidAuth
       /\ SessionRequests(conn.client, "initSession") = {}

\* the initSession request of the client
InitRequest == conn.client.sent[1]

\* the header and the parameters the credentials are expected in
ExpectedHeader ==
  IF conn.auth.t = "str"
  THEN [scheme |-> "user_token", credentials |-> conn.auth.v]
  ELSE [scheme |-> "Basic",
        credentials |-> B64(conn.auth.items[1].v \o <<":">> \o conn.auth.items[2].v)]
ExpectedParams ==
  IF conn.auth.t = "str" THEN [user_token |-> conn.auth]
  ELSE [login |-> conn.auth.items[1], password |-> conn.auth.items[2]]

\* C17: the initSession request has the credentials in one place.  With
\* use_headers they are in the Authorization header (Basic with the encoded
\* user:password for a pair, user_token for a token) and there are no
\* parameters; without use_headers there is no Authorization header and the
\* parameters are login and password, or user_token.
C17_CredentialsInOnePlace ==
  (conn.stage # "none" /\ SessionRequests(conn.client, "initSession") # {})
    => /\ InitRequest.endpoint = "initSession"
       /\ conn.use_headers
            => /\ "Authorization" \in DOMAIN InitRequest.headers
               /\ InitRequest.params = EmptyDict
               /\ ~NotAPair(conn.auth) => InitRequest.headers["Authorization"] = ExpectedHeader
       /\ ~conn.use_headers
            => /\ "Authorization" \notin DOMAIN InitRequest.headers
               /\ ~NotAPair(conn.auth)
               /\ InitRequest.params = ExpectedParams

\* a pair was sent in the parameters, and the session opened
C17_PairInParameters ==
  /\ conn.stage = "client"
  /\ conn.auth.t = "tuple"
  /\ ~conn.use_headers
  /\ InitRequest.params = [login |-> User, password |-> Password]

\* every request of the client carries the User-Agent it was given
CarriesUserAgent ==
  \A i \in 1..Len(conn.client.sent) :
    /\ "User-Agent" \in DOMAIN conn.client.sent[i].headers
    /\ conn.client.sent[i].headers["User-Agent"] = conn.user_agent

\* GLPI(..., user_agent=X): the initSession request and every later request
\* carry the User-Agent X
C20_UserAgentOfGLPI ==
  (conn.stage # "none" /\ conn.via = "GLPI" /\ Truthy(conn.user_agent)) => CarriesUserAgent

\* C20: connect(..., user_agent=X) opens the session GLPI(..., user_agent=X)
\* opens: the initSession request and every later request of the client of
\* the block carry the User-Agent X.
C20_UserAgentOfConnect ==
  (conn.stage # "none" /\ conn.via = "connect" /\ Truthy(conn.user_agent)) => CarriesUserAgent

----------------------------------------------------------------------------
(* The public operations. *)

\* a call of upload_document whose response was 201 with an error of the file
UploadRefused ==
  /\ call # NoCall
  /\ call.op = "upload_document"
  /\ call.sent[1].outcome = "201"
  /\ call.arg.error

\* the purge of the document: the second request of the call
PurgeSent ==
  /\ Len(call.sent) = 2
  /\ call.sent[2].method = "DELETE"
  /\ call.sent[2].endpoint = "Document"
  /\ call.sent[2].params = [force_purge |-> PyStr(<<"t", "r", "u", "e">>)]

\* the purge did not delete the document and delete raised a GLPIError: the
\* transport failed, the status has no handler, or the response is an error
\* of GLPI
PurgeFailed ==
  \/ call.sent[2].outcome \in {"transport", "404", "500", "201", "206"}
  \/ call.sent[2].outcome \in {"400", "401"} /\ call.sent[2].body = "pair"

\* the purge deleted the document, or was answered that it could not
PurgeDone ==
  \/ call.sent[2].outcome \in {"200", "204", "207"}
  \/ call.sent[2].outcome = "400" /\ call.sent[2].body = "delete_pair"

\* when the purge succeeds the call raises the error of the upload
C11_RaisedAfterPurge ==
  (UploadRefused /\ PurgeSent /\ PurgeDone) => call.exc = InvalidDocument

\* C11: upload_document answered 201 with an error of the file sends the
\* purge of the document and raises GLPIError (ERROR_GLPI_INVALID_DOCUMENT),
\* also when the purge fails, which is then reported as a warning only.
C11_UploadErrorRaised ==
  UploadRefused
    => /\ PurgeSent
       /\ (PurgeDone \/ PurgeFailed) => call.exc = InvalidDocument
       /\ PurgeFailed => Len(call.warnings) = 2

\* the status codes an operation has a handler for
Handled(op) ==
  CASE op \in TableOps -> DOMAIN Handlers(op)
    [] op = "upload_document" -> {"201"}
    [] op = "download_document" -> {"200"}

\* the request of the call was answered with a status without handler
Unhandled ==
  /\ call # NoCall
  /\ call.op \in TableOps \cup {"upload_document", "download_document"}
  /\ Len(call.sent) > 0
  /\ call.sent[1].outcome \notin Handled(call.op) \cup {"transport"}

\* the operations that have a table of handlers raise the unknown error for
\* a status that is not in their table
C13_UnknownErrorOfTables ==
  (Unhandled /\ call.op \in TableOps) => (call.exc = UnknownError /\ call.ret = None)

\* C13: an operation answered with a status it has no handler for raises
\* GLPIError 'unknown error: [status/reason] body'; it returns nothing and
\* does not raise the error '(code) message'.
C13_UnhandledStatusIsUnknownError ==
  Unhandled => (call.exc = UnknownError /\ call.ret = None)

\* the requests the client of the session had sent before the step
SentBefore == IF conn.stage = "none" THEN << >> ELSE conn.client.sent

\* request i of the call that has returned is the purge of upload_document
IsPurge(i) == call'.op = "upload_document" /\ i = 2

\* a request of the call that has returned met a failure of the transport:
\* nothing was sent after it, and the call raised the communication error
\* unless the request is one of except
FailureOfCallRaised(except) ==
  (call = NoCall /\ call' # NoCall)
    => \A i \in 1..Len(call'.sent) :
         call'.sent[i].outcome = "transport"
           => /\ i = Len(call'.sent)
              /\ i \in except \/ call'.exc = CommunicationError

\* a step of the session sends one request at most, and raises the
\* communication error when that request met a failure of the transport
FailureOfSessionRaised ==
  (conn' # conn /\ conn'.stage # "none")
    => /\ Len(conn'.client.sent) <= Len(SentBefore) + 1
       /\ (/\ Len(conn'.client.sent) = Len(SentBefore) + 1
           /\ conn'.client.sent[Len(conn'.client.sent)].outcome = "transport")
            => conn'.client.exc = CommunicationError

\* C14 as stated: whatever the operation (a public operation, the opening
\* and the killing of the session, the fetch of the search options for
\* field_id, field_uid and search), a request that meets a failure of the
\* transport makes the call raise GLPIError 'communication error', and
\* nothing is sent after it.
C14_TransportFailureRaised ==
  [][FailureOfCallRaised({}) /\ FailureOfSessionRaised]_vars

\* C14: the same, but for the purge that upload_document sends after an
\* upload that reported an error of the file: its failure is caught by
\* upload_document.  The purge too is sent once.
C14_TransportFailureRaisedButPurge ==
  [][FailureOfCallRaised({i \in {2} : IsPurge(i)}) /\ FailureOfSessionRaised]_vars

\* the request of upload_document met a failure of the transport
C14_UploadNotSent ==
  /\ call # NoCall
  /\ call.op = "upload_document"
  /\ Len(call.sent) = 1
  /\ call.sent[1].outcome = "transport"
  /\ call.exc = CommunicationError
====
